---- MODULE Spec2Model ----
\* Model of restAPI.py: the interactive front-end (main), the single-range
\* fetch (get_historical_data) and the paginated fetch (get_paginated_data).
\*
\* Strings that the program compares, parses or formats (the date strings)
\* are sequences of character codes, so that Python's lexicographic string
\* comparison, strptime and strftime are modelled by what they do.
\* Calendar dates (datetime objects) are day ordinals counted from
\* BaseYear-01-01 (ordinal 0). Wall-clock time is counted in seconds.
\* Bar timestamps are counted in minutes since BaseYear-01-01 00:00 (the
\* provider's unit is the millisecond; the unit does not change the order).
EXTENDS Integers, Sequences, FiniteSets, TLC

\* ------------------------------------------------------------------ bounds
\* Largest duration, in seconds, of one provider request.
MaxDuration == 1
\* Number of bars the provider holds for one trading day.
BarsPerDay == 1

\* ------------------------------------------------------- program constants
BaseYear == 2024
MinutesPerDay == 1440
\* code points of '-', ' ' and '0'
Dash == 45
Space == 32
Zero == 48
\* chunk_days = 7 if timespan == "minute" else 30
MinuteChunkDays == 7
HourChunkDays == 30
\* time.sleep(12)
SleepSeconds == 12
\* the caps the documentation states: "limit chunks to 7 days", "30 days"
\* and "5 requests per minute"
MinuteCapDays == 7
HourCapDays == 30
RateCeiling == 5
RateWindow == 60

\* None, as the value of an absent optional attribute (real values are >= 0)
None == -1

\* ---------------------------------------------------------------- calendar
IsLeap(y) == (y % 4 = 0 /\ y % 100 # 0) \/ y % 400 = 0

DaysInMonth(y, m) ==
  IF m = 2 THEN (IF IsLeap(y) THEN 29 ELSE 28)
  ELSE IF m \in {4, 6, 9, 11} THEN 30 ELSE 31

DaysInYear(y) == IF IsLeap(y) THEN 366 ELSE 365

RECURSIVE DaysBeforeMonth(_, _)
DaysBeforeMonth(y, m) ==
  IF m <= 1 THEN 0 ELSE DaysBeforeMonth(y, m - 1) + DaysInMonth(y, m - 1)

RECURSIVE DaysBeforeYear(_)
DaysBeforeYear(y) ==
  IF y <= BaseYear THEN 0 ELSE DaysBeforeYear(y - 1) + DaysInYear(y - 1)

\* datetime(y, m, d) as a day ordinal
ToOrdinal(y, m, d) == DaysBeforeYear(y) + DaysBeforeMonth(y, m) + (d - 1)

RECURSIVE YearOf(_, _)
YearOf(n, y) == IF n < DaysInYear(y) THEN y ELSE YearOf(n - DaysInYear(y), y + 1)

RECURSIVE MonthOf(_, _, _)
MonthOf(n, y, m) ==
  IF n < DaysInMonth(y, m) THEN m ELSE MonthOf(n - DaysInMonth(y, m), y, m + 1)

\* the (year, month, day) of a day ordinal
DateInYear(y, r, m) == [year |-> y, month |-> m, day |-> r - DaysBeforeMonth(y, m) + 1]

FromOrdinalIn(n, y) ==
  DateInYear(y, n - DaysBeforeYear(y), MonthOf(n - DaysBeforeYear(y), y, 1))

FromOrdinal(n) == FromOrdinalIn(n, YearOf(n, BaseYear))

\* ----------------------------------------------------------------- strings
IsDigit(c) == c >= Zero /\ c <= Zero + 9

\* Python's str > str: lexicographic on code points, a proper prefix is less
RECURSIVE StrGT(_, _)
StrGT(a, b) ==
  IF a = <<>> THEN FALSE
  ELSE IF b = <<>> THEN TRUE
  ELSE IF Head(a) # Head(b) THEN Head(a) > Head(b)
  ELSE StrGT(Tail(a), Tail(b))

\* %Y of strptime, \d\d\d\d, at the start of s
MatchesYear(s) == IsDigit(s[1]) /\ IsDigit(s[2]) /\ IsDigit(s[3]) /\ IsDigit(s[4])

YearValue(s) ==
  1000 * (s[1] - Zero) + 100 * (s[2] - Zero) + 10 * (s[3] - Zero) + (s[4] - Zero)

\* %m of strptime, 1[0-2]|0[1-9]|[1-9], on the n characters of s after p
MatchesMonth(s, p, n) ==
  \/ n = 1 /\ s[p + 1] >= Zero + 1 /\ s[p + 1] <= Zero + 9
  \/ n = 2 /\ s[p + 1] = Zero + 1 /\ s[p + 2] >= Zero /\ s[p + 2] <= Zero + 2
  \/ n = 2 /\ s[p + 1] = Zero /\ s[p + 2] >= Zero + 1 /\ s[p + 2] <= Zero + 9

\* %d of strptime, 3[01]|[12]\d|0[1-9]|[1-9]| [1-9], on the n characters after p
MatchesDay(s, p, n) ==
  \/ n = 1 /\ s[p + 1] >= Zero + 1 /\ s[p + 1] <= Zero + 9
  \/ n = 2 /\ s[p + 1] = Zero + 3 /\ s[p + 2] \in {Zero, Zero + 1}
  \/ n = 2 /\ s[p + 1] \in {Zero + 1, Zero + 2} /\ IsDigit(s[p + 2])
  \/ n = 2 /\ s[p + 1] = Zero /\ s[p + 2] >= Zero + 1 /\ s[p + 2] <= Zero + 9
  \/ n = 2 /\ s[p + 1] = Space /\ s[p + 2] >= Zero + 1 /\ s[p + 2] <= Zero + 9

\* the number the n characters of s after p stand for (n is 1 or 2)
FieldValue(s, p, n) ==
  IF n = 1 THEN s[p + 1] - Zero
  ELSE (IF s[p + 1] = Space THEN 0 ELSE 10 * (s[p + 1] - Zero)) + (s[p + 2] - Zero)

\* the date of fields that match the format: ValueError when the year is 0
\* or the month has no such day
DateOfFields(y, m, d) ==
  IF y < 1 \/ d > DaysInMonth(y, m) THEN [ok |-> FALSE]
  ELSE [ok |-> TRUE, ord |-> ToOrdinal(y, m, d)]

\* datetime.strptime(s, '%Y-%m-%d') for a month of mlen characters: the whole
\* of s must match \d\d\d\d-(month)-(day); [ok |-> FALSE] stands for ValueError
StrptimeWith(s, mlen) ==
  IF ~(MatchesYear(s) /\ s[5] = Dash /\ MatchesMonth(s, 5, mlen)
       /\ s[6 + mlen] = Dash /\ MatchesDay(s, 6 + mlen, Len(s) - 6 - mlen))
    THEN [ok |-> FALSE]
  ELSE DateOfFields(YearValue(s), FieldValue(s, 5, mlen),
                    FieldValue(s, 6 + mlen, Len(s) - 6 - mlen))

Strptime(s) ==
  IF Len(s) < 8 THEN [ok |-> FALSE]
  ELSE IF s[7] = Dash THEN StrptimeWith(s, 1)
  ELSE StrptimeWith(s, 2)

Pad2(n) == <<Zero + (n \div 10), Zero + (n % 10)>>

Pad4(n) == <<Zero + (n \div 1000), Zero + ((n \div 100) % 10),
             Zero + ((n \div 10) % 10), Zero + (n % 10)>>

\* datetime.strftime('%Y-%m-%d') of a day ordinal
Strftime(n) ==
  LET d == FromOrdinal(n)
  IN  Pad4(d.year) \o <<Dash>> \o Pad2(d.month) \o <<Dash>> \o Pad2(d.day)

\* validate_date(date_text)
validate_date(date_text) == Strptime(date_text).ok

\* ------------------------------------------------- the provider (environment)
\* One raw aggregate of the provider. vwap and transactions are optional
\* attributes: the bars of odd days lack them.
Agg(o, i) ==
  LET ts == o * MinutesPerDay + 570 + 60 * (i - 1) IN
  IF o % 2 = 0
    THEN [timestamp |-> ts, open |-> 10, high |-> 12, low |-> 9, close |-> 11,
          volume |-> 100 + i, vwap |-> 10, transactions |-> 3]
    ELSE [timestamp |-> ts, open |-> 10, high |-> 12, low |-> 9, close |-> 11,
          volume |-> 100 + i]

DayBars(o) == [i \in 1..BarsPerDay |-> Agg(o, i)]

RECURSIVE BarsBetween(_, _, _)
BarsBetween(days, lo, hi) ==
  IF lo > hi THEN <<>>
  ELSE (IF lo \in days THEN DayBars(lo) ELSE <<>>) \o BarsBetween(days, lo + 1, hi)

Reverse(s) == [i \in 1..Len(s) |-> s[Len(s) + 1 - i]]

\* What client.list_aggs(from_, to) yields when it does not raise: the bars of
\* the provider's trading days inside [from_, to]. A provider of mode
\* "descending" answers newest first, one of mode "leaky" also returns the
\* bars of the day before from_.
ListAggs(prov, from_, to) ==
  LET f == Strptime(from_)
      t == Strptime(to)
  IN  IF ~(f.ok /\ t.ok) THEN <<>>
      ELSE IF prov.mode = "descending" THEN Reverse(BarsBetween(prov.days, f.ord, t.ord))
      ELSE IF prov.mode = "leaky" THEN BarsBetween(prov.days, f.ord - 1, t.ord)
      ELSE BarsBetween(prov.days, f.ord, t.ord)

\* trading days of the provider's data sets (day ordinals)
NoDays == {}
SparseDays == {0, 4, 7, 8, 19, 31, 45}

Providers ==
  { [days |-> NoDays, mode |-> "sorted"],
    [days |-> SparseDays, mode |-> "sorted"],
    [days |-> SparseDays, mode |-> "descending"],
    [days |-> SparseDays, mode |-> "leaky"] }

\* markers the text of a raised error may contain
ErrorTexts == SUBSET {"NOT_AUTHORIZED", "RATE_LIMIT"}

\* durations of one request, in seconds: the shortest and the longest
Durations == {0, MaxDuration}

\* ------------------------------------------------------------ data frames
\* pd.to_datetime(a.timestamp, unit=...): the instant as (day, minute of day)
ToDatetime(ts) == <<ts \div MinutesPerDay, ts % MinutesPerDay>>

TsLess(a, b) == a[1] < b[1] \/ (a[1] = b[1] /\ a[2] < b[2])

\* getattr(a, name, None)
GetAttr(a, name) == IF name \in DOMAIN a THEN a[name] ELSE None

\* one row of the DataFrame built from a raw aggregate
Row(a) ==
  [timestamp |-> ToDatetime(a.timestamp), open |-> a.open, high |-> a.high,
   low |-> a.low, close |-> a.close, volume |-> a.volume,
   vwap |-> GetAttr(a, "vwap"), transactions |-> GetAttr(a, "transactions")]

\* a raw aggregate carries both optional attributes
HasOptionals(a) == "vwap" \in DOMAIN a /\ "transactions" \in DOMAIN a

\* mutant: aggregates lacking an optional attribute are left out
ToFrameDropsIncomplete(aggs) ==
  [i \in 1..Len(SelectSeq(aggs, HasOptionals)) |->
     Row(SelectSeq(aggs, HasOptionals)[i])]

\* pd.DataFrame([... for a in aggs]) with the timestamp as index
ToFrame(aggs) == [i \in 1..Len(aggs) |-> Row(aggs[i])]

EmptyFrame == <<>>

\* df.empty
IsEmpty(df) == Len(df) = 0

\* pd.concat(frames)
RECURSIVE Concat(_)
Concat(frames) ==
  IF frames = <<>> THEN EmptyFrame ELSE Head(frames) \o Concat(Tail(frames))

\* mutant: the rate-limit marker is looked for first
DiagnoseRateLimitFirst(text) ==
  IF "RATE_LIMIT" \in text THEN "rate_limit"
  ELSE IF "NOT_AUTHORIZED" \in text THEN "not_authorized"
  ELSE "none"

\* the diagnostic get_historical_data prints for an error text
Diagnose(text) ==
  IF "NOT_AUTHORIZED" \in text THEN "not_authorized"
  ELSE IF "RATE_LIMIT" \in text THEN "rate_limit"
  ELSE "none"

\* --------------------------------------------------------------- user input
\* the strings typed at the date prompts: zero-padded dates, dates without
\* zero padding, and strings strptime rejects
Str(y, m, d) == Pad4(y) \o <<Dash>> \o m \o <<Dash>> \o d

DateInputs ==
  { Str(2024, Pad2(1), Pad2(1)),      \* 2024-01-01
    Str(2024, Pad2(1), Pad2(20)),     \* 2024-01-20
    Str(2024, Pad2(2), Pad2(1)),      \* 2024-02-01
    Str(2024, Pad2(2), Pad2(15)),     \* 2024-02-15
    Str(2024, <<Zero + 1>>, Pad2(25)),       \* 2024-1-25
    Str(2024, Pad2(2), Pad2(30)),     \* 2024-02-30
    Str(2024, Pad2(13), Pad2(1)),     \* 2024-13-01
    Pad2(24) \o <<Dash>> \o Pad2(1) \o <<Dash>> \o Pad2(1) }   \* 24-01-01

Tickers == {"AAPL"}

TimespanChoices == {"1", "2", "3", "4", "5", "", "x"}

MultChoices == {"", "2", "5", "x"}

\* timespan_map.get(timespan_choice, "day")
timespan_map(choice) ==
  CASE choice = "1" -> "minute"
    [] choice = "2" -> "hour"
    [] choice = "3" -> "day"
    [] choice = "4" -> "week"
    [] choice = "5" -> "month"
    [] OTHER -> "day"

multiplier_options == <<"1", "5", "15", "30">>

\* mult_choice.isdigit(), for the strings of MultChoices
IsDigitStr(s) == s \in {"0", "1", "2", "3", "4", "5", "6", "7", "8", "9"}

\* int(s), for the strings the program converts
PyInt(s) ==
  CASE s = "0" -> 0 [] s = "1" -> 1 [] s = "2" -> 2 [] s = "3" -> 3
    [] s = "4" -> 4 [] s = "5" -> 5 [] s = "6" -> 6 [] s = "7" -> 7
    [] s = "8" -> 8 [] s = "9" -> 9 [] s = "15" -> 15 [] s = "30" -> 30

\* the multiplier main selects for a timespan and a menu choice
SelectMultiplier(ts, mult_choice) ==
  IF ts = "minute"
    THEN IF IsDigitStr(mult_choice) /\ 1 <= PyInt(mult_choice) /\ PyInt(mult_choice) <= 4
           THEN multiplier_options[PyInt(mult_choice)]
           ELSE "1"
    ELSE "1"

\* ------------------------------------------------- get_paginated_data, pure
\* chunk_days = 7 if timespan == "minute" else 30
ChunkDays(ts) == IF ts = "minute" THEN MinuteChunkDays ELSE HourChunkDays

\* mutant: the end of a chunk is not capped at the end of the range
ChunkEndUncapped(cur, endd, days) == cur + days

\* current_end = current_start + timedelta(days=chunk_days), capped at end_dt
ChunkEnd(cur, endd, days) == IF cur + days > endd THEN endd ELSE cur + days

\* mutant: the cursor moves two days past the chunk's end
NextStartSkipsDay(cur_end) == cur_end + 2

\* current_start = current_end + timedelta(days=1)
NextStart(cur_end) == cur_end + 1

\* mutant: the sleep is not guarded
SleepAlways(cur, endd) == TRUE

\* the guard of the rate-limit sleep: if current_start <= end_dt
SleepNeeded(cur, endd) == cur <= endd

\* the while condition: current_start <= end_dt
LoopCondition(cur, endd) == cur <= endd

\* mutant: a chunk is put in front of the chunks kept so far
AccumulateFront(data, df) == IF ~IsEmpty(df) THEN <<df>> \o data ELSE data

\* mutant: an empty chunk discards the chunks kept so far
AccumulateReset(data, df) == IF ~IsEmpty(df) THEN Append(data, df) ELSE <<>>

\* if not chunk_df.empty: all_data.append(chunk_df)
Accumulate(data, df) == IF ~IsEmpty(df) THEN Append(data, df) ELSE data

\* the value returned: pd.concat(all_data) if all_data else pd.DataFrame()
Combined(data) == IF data # <<>> THEN Concat(data) ELSE EmptyFrame

\* mutant: every timespan takes the paginated path
IsPaginatedAlways(ts) == TRUE

\* main's test for the paginated path: timespan in ["minute", "hour"]
IsPaginated(ts) == ts \in {"minute", "hour"}

\* main's test before swapping: start_date > end_date (on the strings)
StartAfterEnd(s, e) == StrGT(s, e)

\* ------------------------------------------------------------------- state
VARIABLES
  pc,             \* position of the program
  apiKey,         \* whether POLYGON_API_KEY is set in the environment
  provider,       \* the provider's data set and behaviour
  clock,          \* wall-clock time in seconds
  ticker, start_date, end_date, timespan, multiplier,   \* locals of main
  start_dt, end_dt, chunk_days, current_start, current_end, all_data,
                  \* locals of get_paginated_data
  call,           \* arguments of the running get_historical_data call
  chunk_df,       \* value that call returned
  err,            \* text of the exception that call caught: str(e)
  diag,           \* API diagnostic that call printed (kept until the caller resumes)
  result,         \* df of main
  requests,       \* the list_aggs requests issued, in order
  reqTimes,       \* the time each was issued at
  outcomes,       \* how each ended: "ok", "empty" or "error"
  events          \* "R" for each request issued and "W" for each sleep, in order

vars == <<pc, apiKey, provider, clock, ticker, start_date, end_date, timespan,
          multiplier, start_dt, end_dt, chunk_days, current_start, current_end,
          all_data, call, chunk_df, err, diag, result, requests, reqTimes,
          outcomes, events>>

mainVars == <<ticker, start_date, end_date, timespan, multiplier>>
pageVars == <<start_dt, end_dt, chunk_days, current_start, current_end, all_data>>
envVars == <<apiKey, provider>>
logVars == <<requests, reqTimes, outcomes, events>>

NoCall == [caller |-> "none"]

\* no exception has been caught by the running call
NoError == {"no error"}

Init ==
  /\ pc = "ticker"
  /\ apiKey \in BOOLEAN
  /\ provider \in Providers
  /\ clock = 0
  /\ ticker = "" /\ start_date = <<>> /\ end_date = <<>>
  /\ timespan = "" /\ multiplier = ""
  /\ start_dt = 0 /\ end_dt = 0 /\ chunk_days = 0
  /\ current_start = 0 /\ current_end = 0 /\ all_data = <<>>
  /\ call = NoCall
  /\ chunk_df = EmptyFrame
  /\ err = NoError
  /\ diag = "none"
  /\ result = EmptyFrame
  /\ requests = <<>> /\ reqTimes = <<>> /\ outcomes = <<>> /\ events = <<>>

\* -------------------------------------------------------------------- main
\* ticker = input(...).upper()
EnterTicker ==
  /\ pc = "ticker"
  /\ \E t \in Tickers : ticker' = t
  /\ pc' = "start_date"
  /\ UNCHANGED <<start_date, end_date, timespan, multiplier, pageVars, envVars,
                 logVars, clock, call, chunk_df, diag, err, result>>

\* start_date = get_date_input(...): an input validate_date rejects is asked again
EnterStartDate ==
  /\ pc = "start_date"
  /\ \E s \in DateInputs :
       IF validate_date(s)
         THEN start_date' = s /\ pc' = "end_date"
         ELSE UNCHANGED <<start_date, pc>>
  /\ UNCHANGED <<ticker, end_date, timespan, multiplier, pageVars, envVars,
                 logVars, clock, call, chunk_df, diag, err, result>>

\* end_date = get_date_input(...)
EnterEndDate ==
  /\ pc = "end_date"
  /\ \E s \in DateInputs :
       IF validate_date(s)
         THEN end_date' = s /\ pc' = "validate_range"
         ELSE UNCHANGED <<end_date, pc>>
  /\ UNCHANGED <<ticker, start_date, timespan, multiplier, pageVars, envVars,
                 logVars, clock, call, chunk_df, diag, err, result>>

\* if start_date > end_date: start_date, end_date = end_date, start_date
ValidateRange ==
  /\ pc = "validate_range"
  /\ IF StartAfterEnd(start_date, end_date)
       THEN start_date' = end_date /\ end_date' = start_date
       ELSE UNCHANGED <<start_date, end_date>>
  /\ pc' = "timespan"
  /\ UNCHANGED <<ticker, timespan, multiplier, pageVars, envVars, logVars,
                 clock, call, chunk_df, diag, err, result>>

\* the timespan menu and, for minute data, the multiplier menu
SelectTimespan ==
  /\ pc = "timespan"
  /\ \E choice \in TimespanChoices, mult_choice \in MultChoices :
       /\ timespan' = timespan_map(choice)
       /\ multiplier' = SelectMultiplier(timespan_map(choice), mult_choice)
  /\ pc' = "fetch"
  /\ UNCHANGED <<ticker, start_date, end_date, pageVars, envVars, logVars,
                 clock, call, chunk_df, diag, err, result>>

\* main calls get_paginated_data, which parses the dates and sets up the loop
EnterPaginated ==
  /\ pc = "fetch"
  /\ IsPaginated(timespan)
  /\ start_dt' = Strptime(start_date).ord
  /\ end_dt' = Strptime(end_date).ord
  /\ chunk_days' = ChunkDays(timespan)
  /\ all_data' = <<>>
  /\ current_start' = Strptime(start_date).ord
  /\ pc' = "loop"
  /\ UNCHANGED <<mainVars, current_end, envVars, logVars, clock, call,
                 chunk_df, diag, err, result>>

\* main calls get_historical_data for day, week and month data
CallDirect ==
  /\ pc = "fetch"
  /\ ~IsPaginated(timespan)
  /\ call' = [caller |-> "main", ticker |-> ticker, from_ |-> start_date,
              to |-> end_date, timespan |-> timespan,
              multiplier |-> PyInt(multiplier)]
  /\ diag' = "none"
  /\ err' = NoError
  /\ pc' = "client"
  /\ UNCHANGED <<mainVars, pageVars, envVars, logVars, clock, chunk_df, result>>

\* ------------------------------------------------------ get_paginated_data
\* one pass of the while loop up to the call of get_historical_data
FetchChunk ==
  /\ pc = "loop"
  /\ LoopCondition(current_start, end_dt)
  /\ current_end' = ChunkEnd(current_start, end_dt, chunk_days)
  /\ call' = [caller |-> "paginated", ticker |-> ticker,
              from_ |-> Strftime(current_start),
              to |-> Strftime(ChunkEnd(current_start, end_dt, chunk_days)),
              timespan |-> timespan, multiplier |-> PyInt(multiplier)]
  /\ diag' = "none"
  /\ err' = NoError
  /\ pc' = "client"
  /\ UNCHANGED <<mainVars, start_dt, end_dt, chunk_days, current_start, all_data,
                 envVars, logVars, clock, chunk_df, result>>

\* mutant: the cursor stays on a chunk whose request failed
AdvanceCursorRetry ==
  /\ pc = "returned"
  /\ call.caller = "paginated"
  /\ all_data' = Accumulate(all_data, chunk_df)
  /\ current_start' = IF outcomes[Len(outcomes)] = "error" THEN current_start
                      ELSE NextStart(current_end)
  /\ pc' = IF outcomes[Len(outcomes)] = "error" THEN "sleep"
           ELSE IF SleepNeeded(NextStart(current_end), end_dt) THEN "sleep"
           ELSE "loop"
  /\ call' = NoCall
  /\ diag' = "none"
  /\ err' = NoError
  /\ UNCHANGED <<mainVars, start_dt, end_dt, chunk_days, current_end, envVars,
                 logVars, clock, chunk_df, result>>

\* the rest of the pass: keep the chunk, move the cursor, decide on the sleep
AdvanceCursor ==
  /\ pc = "returned"
  /\ call.caller = "paginated"
  /\ all_data' = Accumulate(all_data, chunk_df)
  /\ current_start' = NextStart(current_end)
  /\ pc' = IF SleepNeeded(NextStart(current_end), end_dt) THEN "sleep" ELSE "loop"
  /\ call' = NoCall
  /\ diag' = "none"
  /\ err' = NoError
  /\ UNCHANGED <<mainVars, start_dt, end_dt, chunk_days, current_end, envVars,
                 logVars, clock, chunk_df, result>>

\* mutant: the sleep is one second short
RateLimitSleepShort ==
  /\ pc = "sleep"
  /\ clock' = clock + SleepSeconds - 1
  /\ events' = Append(events, "W")
  /\ pc' = "loop"
  /\ UNCHANGED <<mainVars, pageVars, envVars, requests, reqTimes, outcomes,
                 call, chunk_df, diag, err, result>>

\* mutant: the sleep after a failed request is doubled (a back-off)
RateLimitSleepBackoff ==
  /\ pc = "sleep"
  /\ clock' = clock + (IF outcomes[Len(outcomes)] = "error"
                         THEN 2 * SleepSeconds ELSE SleepSeconds)
  /\ events' = Append(events, "W")
  /\ pc' = "loop"
  /\ UNCHANGED <<mainVars, pageVars, envVars, requests, reqTimes, outcomes,
                 call, chunk_df, diag, err, result>>

\* time.sleep(12)
RateLimitSleep ==
  /\ pc = "sleep"
  /\ clock' = clock + SleepSeconds
  /\ events' = Append(events, "W")
  /\ pc' = "loop"
  /\ UNCHANGED <<mainVars, pageVars, envVars, requests, reqTimes, outcomes,
                 call, chunk_df, diag, err, result>>

\* mutant: pd.concat is called without the test for an empty list, and raises
\* on it
CombineChunksUnguarded ==
  /\ pc = "loop"
  /\ ~LoopCondition(current_start, end_dt)
  /\ result' = Combined(all_data)
  /\ pc' = IF all_data # <<>> THEN "done" ELSE "raised"
  /\ UNCHANGED <<mainVars, pageVars, envVars, logVars, clock, call,
                 chunk_df, diag, err>>

\* the loop ends; the chunks are combined and returned to main
CombineChunks ==
  /\ pc = "loop"
  /\ ~LoopCondition(current_start, end_dt)
  /\ result' = Combined(all_data)
  /\ pc' = "done"
  /\ UNCHANGED <<mainVars, pageVars, envVars, logVars, clock, call,
                 chunk_df, diag, err>>

\* ----------------------------------------------------- get_historical_data
\* RESTClient(api_key=None) raises, outside the try block: the error leaves
\* get_historical_data and its callers, none of which handles it
ClientInitFails ==
  /\ pc = "client"
  /\ ~apiKey
  /\ pc' = "raised"
  /\ UNCHANGED <<mainVars, pageVars, envVars, logVars, clock, call, chunk_df,
                 diag, err, result>>

\* the client is built and the request is issued
IssueRequest ==
  /\ pc = "client"
  /\ apiKey
  /\ requests' = Append(requests, [ticker |-> call.ticker, from_ |-> call.from_,
                                   to |-> call.to, timespan |-> call.timespan,
                                   multiplier |-> call.multiplier])
  /\ reqTimes' = Append(reqTimes, clock)
  /\ events' = Append(events, "R")
  /\ pc' = "request"
  /\ UNCHANGED <<mainVars, pageVars, envVars, outcomes, clock, call, chunk_df,
                 diag, err, result>>

\* the request returns records: an empty or a filled DataFrame is returned
RequestReturns ==
  /\ pc = "request"
  /\ \E d \in Durations : clock' = clock + d
  /\ LET aggs == ListAggs(provider, call.from_, call.to) IN
       /\ chunk_df' = IF aggs = <<>> THEN EmptyFrame ELSE ToFrame(aggs)
       /\ outcomes' = Append(outcomes, IF aggs = <<>> THEN "empty" ELSE "ok")
  /\ pc' = "returned"
  /\ UNCHANGED <<mainVars, pageVars, envVars, requests, reqTimes, events, call,
                 diag, err, result>>

\* mutant: the error of a request is not caught
RequestRaisesPropagates ==
  /\ pc = "request"
  /\ \E d \in Durations : clock' = clock + d
  /\ \E text \in ErrorTexts : err' = text /\ diag' = Diagnose(text)
  /\ outcomes' = Append(outcomes, "error")
  /\ pc' = "raised"
  /\ UNCHANGED <<mainVars, pageVars, envVars, requests, reqTimes, events, call,
                 chunk_df, result>>

\* the request (or the mapping of its records) raises: the except clause
\* prints a diagnostic and returns an empty DataFrame
RequestRaises ==
  /\ pc = "request"
  /\ \E d \in Durations : clock' = clock + d
  /\ \E text \in ErrorTexts : err' = text /\ diag' = Diagnose(text)
  /\ chunk_df' = EmptyFrame
  /\ outcomes' = Append(outcomes, "error")
  /\ pc' = "returned"
  /\ UNCHANGED <<mainVars, pageVars, envVars, requests, reqTimes, events, call,
                 result>>

\* main receives the DataFrame of its direct call
ReceiveDirect ==
  /\ pc = "returned"
  /\ call.caller = "main"
  /\ result' = chunk_df
  /\ call' = NoCall
  /\ diag' = "none"
  /\ err' = NoError
  /\ pc' = "done"
  /\ UNCHANGED <<mainVars, pageVars, envVars, logVars, clock, chunk_df>>

Next ==
  \/ EnterTicker
  \/ EnterStartDate
  \/ EnterEndDate
  \/ ValidateRange
  \/ SelectTimespan
  \/ EnterPaginated
  \/ CallDirect
  \/ FetchChunk
  \/ AdvanceCursor
  \/ RateLimitSleep
  \/ CombineChunks
  \/ ClientInitFails
  \/ IssueRequest
  \/ RequestReturns
  \/ RequestRaises
  \/ ReceiveDirect

Spec == Init /\ [][Next]_vars

\* ------------------------------------------------------ derived quantities
\* the chunks the loop of get_paginated_data walks through for a range
\* (first and last date of each, as day ordinals)
RECURSIVE Plan(_, _, _)
Plan(cur, endd, days) ==
  IF ~LoopCondition(cur, endd) THEN <<>>
  ELSE <<[from_ |-> cur, to |-> ChunkEnd(cur, endd, days)]>>
       \o Plan(NextStart(ChunkEnd(cur, endd, days)), endd, days)

\* a paginated fetch has been entered
InPaginatedFetch ==
  /\ timespan \in {"minute", "hour"}
  /\ pc \in {"loop", "client", "request", "returned", "sleep", "done", "raised"}

\* a direct fetch (day, week or month data) has been entered
InDirectFetch ==
  /\ timespan \in {"day", "week", "month"}
  /\ pc \in {"client", "request", "returned", "done", "raised"}

\* first and last calendar date of the i-th request, as day ordinals
ReqFrom(i) == Strptime(requests[i].from_).ord
ReqTo(i) == Strptime(requests[i].to).ord

\* the same for all requests issued so far
ReqFroms == [i \in 1..Len(requests) |-> ReqFrom(i)]
ReqTos == [i \in 1..Len(requests) |-> ReqTo(i)]

ReqRange(i) == [from_ |-> ReqFrom(i), to |-> ReqTo(i)]

\* the DataFrame the i-th request returned, had it not raised
ResponseOf(i) == ToFrame(ListAggs(provider, requests[i].from_, requests[i].to))

StrictlyIncreasing(df) ==
  \A i \in 1..(Len(df) - 1) : TsLess(df[i].timestamp, df[i + 1].timestamp)

CountOf(seq, x) == Cardinality({i \in 1..Len(seq) : seq[i] = x})

\* the records of the requests that succeeded so far, in request order
RECURSIVE SucceededRecords(_)
SucceededRecords(n) ==
  IF n = 0 THEN EmptyFrame
  ELSE SucceededRecords(n - 1)
       \o (IF outcomes[n] = "ok" THEN ResponseOf(n) ELSE EmptyFrame)

MinOf(a, b) == IF a <= b THEN a ELSE b
MaxOf(a, b) == IF a >= b THEN a ELSE b

\* ------------------------------------------------------------------ claims
\* (a quantifier over a one-element set, \A x \in {e} : ..., names the value
\* of e so that it is computed once)
\* the request log has just grown, or the fetch has ended
AtRequestOrEnd == pc \in {"request", "done", "raised"}

\* C1: for start <= end and minute or hour data, the chunks requested by the
\* paginated fetch are ascending, contiguous (each starts the day after the
\* previous one ends), non-overlapping, start at start and, once the fetch
\* has returned, end at end. (Stated whenever a request has just been issued
\* and when the fetch has ended: the requests change at no other point.)
C1_ChunksPartitionRange ==
  (InPaginatedFetch /\ AtRequestOrEnd) =>
    \A from \in {ReqFroms}, to \in {ReqTos}, n \in {Len(requests)} :
        /\ \A i \in 1..n : from[i] <= to[i]
        /\ n > 0 => from[1] = start_dt
        /\ \A i \in 1..(n - 1) : from[i + 1] = to[i] + 1
        /\ \A i, j \in 1..n : i < j => to[i] < from[j]
        /\ \A i \in 1..n : to[i] <= end_dt
        /\ (pc = "done" /\ start_dt <= end_dt) => (n > 0 /\ to[n] = end_dt)

C1_Witness ==
  /\ InPaginatedFetch /\ pc = "done" /\ start_dt < end_dt
  /\ Len(requests) >= 3
  /\ ReqFrom(1) = start_dt /\ ReqTo(Len(requests)) = end_dt

\* C2: no chunk of minute data spans more than 7 calendar days and no chunk
\* of hour data more than 30, counting the dates of [chunk start, chunk end].
C2_ChunkSpanWithinCap ==
  InPaginatedFetch =>
    \A i \in 1..Len(requests) :
      ReqTo(i) - ReqFrom(i) + 1
        <= (IF timespan = "minute" THEN MinuteCapDays ELSE HourCapDays)

\* C3: the rate-limit sleep is never performed before the first request, is
\* performed exactly once between two consecutive requests and not after the
\* last one: N requests, N-1 sleeps.
C3_WaitsBetweenRequests ==
  InPaginatedFetch =>
    /\ events # <<>> => events[1] = "R"
    /\ \A i \in 1..(Len(events) - 1) : events[i] # events[i + 1]
    /\ (pc = "done" /\ events # <<>>) =>
         /\ events[Len(events)] = "R"
         /\ CountOf(events, "W") = CountOf(events, "R") - 1
         /\ CountOf(events, "R") = Len(requests)

C3_Witness ==
  /\ InPaginatedFetch /\ pc = "done"
  /\ CountOf(events, "R") >= 3
  /\ CountOf(events, "W") = CountOf(events, "R") - 1

\* C4: a request that fails never aborts the paginated fetch: the fetch is
\* not left by an error once a request has failed, every chunk of the range
\* is still requested, and the value returned is the records of the requests
\* that succeeded, in request order.
C4_FailedChunkDoesNotAbort ==
  InPaginatedFetch =>
    /\ (\E i \in 1..Len(outcomes) : outcomes[i] = "error") => pc # "raised"
    /\ pc = "done" =>
         /\ Len(outcomes) = Len(requests)
         /\ [i \in 1..Len(requests) |-> ReqRange(i)]
              = Plan(start_dt, end_dt, chunk_days)
         /\ result = SucceededRecords(Len(outcomes))

C4_Witness ==
  /\ InPaginatedFetch /\ pc = "done"
  /\ Len(outcomes) >= 3
  /\ outcomes[1] = "error"
  /\ \E i \in 2..Len(outcomes) : outcomes[i] = "ok"
  /\ \E i \in 2..Len(outcomes) : outcomes[i] = "error"
  /\ result # EmptyFrame

\* C5: whatever the order in which the two dates are given, the requests of a
\* fetch that has returned cover the range from the earlier to the later
\* date, and there is at least one request.
C5_SwappedRangeCovered ==
  pc = "done" =>
    /\ requests # <<>>
    /\ ReqFrom(1) = MinOf(Strptime(start_date).ord, Strptime(end_date).ord)
    /\ ReqTo(Len(requests)) = MaxOf(Strptime(start_date).ord, Strptime(end_date).ord)

\* every response received so far is strictly increasing in timestamp and
\* holds only bars of its own chunk's dates
ResponsesWellFormed ==
  \A i \in 1..Len(outcomes) :
    outcomes[i] = "ok" =>
      \A resp \in {ResponseOf(i)}, from \in {ReqFrom(i)}, to \in {ReqTo(i)} :
          /\ StrictlyIncreasing(resp)
          /\ \A k \in 1..Len(resp) :
               from <= resp[k].timestamp[1] /\ resp[k].timestamp[1] <= to

\* C6: if every response is strictly increasing in timestamp and holds only
\* bars of its own chunk's dates, the series accumulated, and the series
\* returned, is strictly increasing in timestamp (so without duplicates),
\* whichever chunks failed or were empty.
C6_MergedSeriesStrictlyIncreasing ==
  (InPaginatedFetch /\ pc \in {"loop", "done"} /\ ResponsesWellFormed) =>
    /\ StrictlyIncreasing(Concat(all_data))
    /\ pc = "done" => StrictlyIncreasing(result)

C6_Witness ==
  /\ InPaginatedFetch /\ pc = "done" /\ ResponsesWellFormed
  /\ Len(all_data) >= 3
  /\ Len(result) >= 4
  /\ \E i \in 1..Len(outcomes) : outcomes[i] = "error"
  /\ \E i \in 1..Len(outcomes) : outcomes[i] = "empty"

\* the step in which the paginated fetch takes the result of a chunk
TakesChunkResult == pc = "returned" /\ call.caller = "paginated"

\* C7: a chunk that failed or came back empty leaves the accumulated series
\* as it was and the fetch goes on to the next chunk or to its return; a
\* fetch whose chunks all failed or were empty returns an empty series.
C7_EmptyChunkLeavesSeries ==
  /\ [][(TakesChunkResult /\ IsEmpty(chunk_df)) =>
          /\ all_data' = all_data
          /\ pc' \in {"sleep", "loop"}]_vars
  /\ [][(pc = "request" /\ pc' = "returned") => all_data' = all_data]_vars
  /\ []((InPaginatedFetch /\ pc = "done"
          /\ \A i \in 1..Len(outcomes) : outcomes[i] \in {"error", "empty"})
        => result = EmptyFrame)

C7_Witness ==
  /\ InPaginatedFetch /\ pc = "done"
  /\ Len(outcomes) >= 4
  /\ outcomes[1] = "ok"
  /\ \A i \in 2..Len(outcomes) : outcomes[i] \in {"error", "empty"}
  /\ \E i \in 2..Len(outcomes) : outcomes[i] = "error"
  /\ \E i \in 2..Len(outcomes) : outcomes[i] = "empty"
  /\ result = ResponseOf(1)

\* C8: the chunks of the range are requested once each, in ascending order
\* and one after the other (a request is issued only when every earlier one
\* has returned); a failed chunk is not requested again, so a fetch that has
\* returned has issued as many requests as the range has chunks.
C8_EachChunkRequestedOnce ==
  /\ InPaginatedFetch =>
       /\ Len(outcomes) <= Len(requests) /\ Len(requests) <= Len(outcomes) + 1
       /\ (Len(requests) = Len(outcomes) + 1) <=> (pc = "request")
  /\ (InPaginatedFetch /\ AtRequestOrEnd) =>
       \A plan \in {Plan(start_dt, end_dt, chunk_days)}, from \in {ReqFroms},
          to \in {ReqTos}, n \in {Len(requests)} :
           /\ n <= Len(plan)
           /\ \A i \in 1..n : from[i] = plan[i].from_ /\ to[i] = plan[i].to
           /\ \A i, j \in 1..n : i < j => from[i] < from[j]
           /\ pc = "done" => n = Len(plan)

C8_Witness ==
  /\ InPaginatedFetch /\ pc = "done"
  /\ Len(requests) >= 3
  /\ Len(requests) = Len(Plan(start_dt, end_dt, chunk_days))
  /\ CountOf(outcomes, "error") >= 2

\* C9: at least 12 seconds pass between the issue of two consecutive requests
\* of a paginated fetch, so no 60 seconds starting at a request see more than
\* 5 requests issued, whatever the requests' durations.
C9_MinimumDelayBetweenRequests ==
  InPaginatedFetch =>
    /\ \A i \in 1..(Len(reqTimes) - 1) :
         reqTimes[i + 1] - reqTimes[i] >= SleepSeconds
    /\ \A i \in 1..Len(reqTimes) :
         Cardinality({j \in 1..Len(reqTimes) :
                        reqTimes[i] <= reqTimes[j]
                        /\ reqTimes[j] < reqTimes[i] + RateWindow})
           <= RateCeiling

C9_Witness ==
  /\ InPaginatedFetch
  /\ Len(reqTimes) > RateCeiling
  /\ reqTimes[RateCeiling + 1] - reqTimes[1] = RateWindow
  /\ Len(outcomes) > RateCeiling

\* C10: for day, week and month data the fetch issues one request, for the
\* whole range [start, end], and never sleeps, however long the range.
C10_DirectFetchSingleRequest ==
  (timespan \in {"day", "week", "month"}
     /\ pc \in {"loop", "client", "request", "returned", "sleep", "done", "raised"}) =>
    /\ Len(requests) <= 1
    /\ CountOf(events, "W") = 0
    /\ pc \notin {"loop", "sleep"}
    /\ pc \in {"request", "returned", "done"} =>
         /\ Len(requests) = 1
         /\ requests[1].from_ = start_date /\ requests[1].to = end_date
         /\ requests[1].timespan = timespan

C10_Witness ==
  /\ InDirectFetch /\ pc = "done"
  /\ timespan = "week"
  /\ Strptime(end_date).ord - Strptime(start_date).ord > HourChunkDays
  /\ Len(requests) = 1
  /\ result # EmptyFrame

\* the range of the i-th request, as the two date strings sent
ReqDates(i) == <<requests[i].from_, requests[i].to>>

\* C11: for the range 2024-01-01..2024-01-20, minute data and multiplier 1,
\* a paginated fetch that has returned has requested exactly the 3 chunks
\* [2024-01-01..2024-01-07], [2024-01-08..2024-01-14] and
\* [2024-01-15..2024-01-20], in that order.
C11_ExampleThreeChunks ==
  (/\ InPaginatedFetch /\ pc = "done"
   /\ timespan = "minute" /\ multiplier = "1"
   /\ start_date = Str(2024, Pad2(1), Pad2(1))
   /\ end_date = Str(2024, Pad2(1), Pad2(20))) =>
    [i \in 1..Len(requests) |-> ReqDates(i)]
      = << <<Str(2024, Pad2(1), Pad2(1)), Str(2024, Pad2(1), Pad2(7))>>,
           <<Str(2024, Pad2(1), Pad2(8)), Str(2024, Pad2(1), Pad2(14))>>,
           <<Str(2024, Pad2(1), Pad2(15)), Str(2024, Pad2(1), Pad2(20))>> >>

\* the program is sequential: a step that can be taken is taken (the user
\* answers each prompt, a request returns or raises, a sleep ends)
FairSpec == Spec /\ WF_vars(Next)

\* a measure of the work a paginated fetch has left: the days from the cursor
\* to the end of the range, then the steps left in the current pass
StepsLeftInPass ==
  CASE pc = "sleep" -> 6
    [] pc = "loop" -> 5
    [] pc = "client" -> 4
    [] pc = "request" -> 3
    [] pc = "returned" -> 2
    [] OTHER -> 0

Rank ==
  7 * (IF current_start <= end_dt THEN end_dt - current_start + 1 ELSE 0)
    + StepsLeftInPass

\* C12: the paginated fetch terminates: the cursor strictly advances in every
\* pass of the loop, the loop is left only when the cursor is past the end of
\* the range, every step of the fetch lowers a measure that is never negative
\* (so no run of the fetch is infinite), and the fetch stops only at its
\* return (Done), having requested every chunk of the range.
C12_PaginatedFetchTerminates ==
  /\ [][TakesChunkResult => current_start' > current_start]_vars
  /\ [][(InPaginatedFetch /\ pc' = "done") =>
          (pc = "loop" /\ current_start > end_dt)]_vars
  /\ [][InPaginatedFetch => (Rank' < Rank /\ Rank' >= 0)]_vars
  /\ []((InPaginatedFetch /\ ~ENABLED Next) =>
          (pc = "done"
             /\ Len(requests) = Len(Plan(start_dt, end_dt, chunk_days))))

\* C13: get_historical_data never lets an error escape: a call of it, from
\* main or from the paginated fetch, is never left by an error (missing
\* credential, failed request, failed mapping); it ends by returning a
\* DataFrame to its caller.
C13_NoErrorEscapes ==
  /\ call.caller # "none" => pc \in {"client", "request", "returned"}
  /\ pc # "raised"

\* the requests and sleeps of a fetch of n chunks: R W R ... W R
RequestsAndWaits(n) ==
  [k \in 1..(IF n = 0 THEN 0 ELSE 2 * n - 1) |-> IF k % 2 = 1 THEN "R" ELSE "W"]

\* C14: how a chunk failed (the marker in the error text), and whether it
\* failed or returned no records, does not change what the paginated fetch
\* does next. Stated on one run as: what the fetch does is a function of the
\* range and of which chunks delivered records alone. A request that ends
\* without records, by any error or by an empty answer, leaves the same empty
\* DataFrame and touches nothing else of the fetch; the pass then moves the
\* cursor past the chunk and sleeps or not by the cursor alone; every sleep
\* is the fixed 12 s; and a fetch that has returned has issued the requests
\* of the range's plan, slept between them, and returned the records of the
\* chunks that delivered some.
C14_FailureClassDoesNotSteer ==
  /\ [][(pc = "request" /\ pc' = "returned"
           /\ outcomes'[Len(outcomes')] \in {"error", "empty"}) =>
          /\ chunk_df' = EmptyFrame
          /\ UNCHANGED <<mainVars, pageVars, requests, reqTimes, events, call,
                         result>>]_vars
  /\ [][(TakesChunkResult /\ IsEmpty(chunk_df)) =>
          /\ current_start' = current_end + 1
          /\ pc' = (IF current_end + 1 <= end_dt THEN "sleep" ELSE "loop")
          /\ diag' = "none"
          /\ UNCHANGED <<all_data, logVars, clock, result>>]_vars
  /\ [][pc = "sleep" =>
          /\ clock' = clock + SleepSeconds
          /\ pc' = "loop"
          /\ UNCHANGED <<pageVars, requests, outcomes>>]_vars
  /\ []((InPaginatedFetch /\ pc = "done") =>
          \A plan \in {Plan(start_dt, end_dt, chunk_days)} :
            /\ events = RequestsAndWaits(Len(plan))
            /\ [i \in 1..Len(requests) |-> ReqRange(i)] = plan
            /\ \A i \in 1..(Len(reqTimes) - 1) :
                 reqTimes[i + 1] - reqTimes[i] - SleepSeconds \in Durations
            /\ result = SucceededRecords(Len(plan)))

C14_Witness ==
  /\ InPaginatedFetch /\ pc = "done"
  /\ Len(outcomes) >= 4
  /\ outcomes[1] = "error" /\ outcomes[2] = "error"
  /\ outcomes[Len(outcomes)] = "ok"
  /\ events = RequestsAndWaits(Len(outcomes))
  /\ \E i \in 1..(Len(outcomes) - 1) :
       outcomes[i] = "error" /\ reqTimes[i + 1] - reqTimes[i] = SleepSeconds
  /\ \E i \in 1..(Len(outcomes) - 1) :
       outcomes[i] = "empty" /\ reqTimes[i + 1] - reqTimes[i] = SleepSeconds

\* C15: when start and end are the same date, for minute or hour data, the
\* paginated fetch issues one request, for the chunk [start, start], and
\* never sleeps.
C15_SingleDayRange ==
  (InPaginatedFetch /\ start_dt = end_dt) =>
    /\ Len(requests) <= 1
    /\ CountOf(events, "W") = 0
    /\ pc # "sleep"
    /\ requests # <<>> =>
         /\ ReqRange(1) = [from_ |-> start_dt, to |-> start_dt]
         /\ requests[1].from_ = requests[1].to
    /\ pc = "done" => Len(requests) = 1 /\ events = <<"R">>

C15_Witness ==
  /\ InPaginatedFetch /\ pc = "done" /\ start_dt = end_dt
  /\ timespan = "hour"
  /\ Len(requests) = 1
  /\ requests[1].from_ = start_date /\ requests[1].to = start_date
  /\ clock \in Durations

\* C16: when the start date reaching get_paginated_data is after the end
\* date, the range has no chunk: the fetch issues no request, never sleeps,
\* and returns an empty DataFrame instead of raising.
C16_EmptyPlanReturnsEmpty ==
  (InPaginatedFetch /\ start_dt > end_dt) =>
    /\ Plan(start_dt, end_dt, chunk_days) = <<>>
    /\ requests = <<>> /\ events = <<>> /\ clock = 0
    /\ call = NoCall
    /\ pc \in {"loop", "done"}
    /\ pc = "done" => result = EmptyFrame

C16_Witness ==
  /\ InPaginatedFetch /\ start_dt > end_dt
  /\ pc = "done"
  /\ result = EmptyFrame /\ requests = <<>>
  /\ ~apiKey

\* the running call has just caught an error
CaughtError == pc = "returned" /\ outcomes[Len(outcomes)] = "error"

\* C17: a failure is put in exactly one class by the markers in its text:
\* with NOT_AUTHORIZED it is reported as unauthorized, also when RATE_LIMIT
\* is there too; with RATE_LIMIT and without NOT_AUTHORIZED as rate limited;
\* every other error gets neither diagnostic (the remaining class, transient
\* or unknown). Outside a failure no diagnostic is printed.
C17_FailureClassifiedByMarkers ==
  /\ CaughtError =>
       /\ err \in ErrorTexts
       /\ "NOT_AUTHORIZED" \in err => diag = "not_authorized"
       /\ ("RATE_LIMIT" \in err /\ "NOT_AUTHORIZED" \notin err)
            => diag = "rate_limit"
       /\ ("RATE_LIMIT" \notin err /\ "NOT_AUTHORIZED" \notin err)
            => diag = "none"
       /\ chunk_df = EmptyFrame
  /\ ~CaughtError => (diag = "none" /\ err = NoError)

C17_Witness ==
  /\ CaughtError
  /\ err = {"NOT_AUTHORIZED", "RATE_LIMIT"}
  /\ diag = "not_authorized"
  /\ call.caller = "paginated"
  /\ Len(outcomes) >= 2

\* the running call has just returned the records of its request
ReturnedRecords == pc = "returned" /\ outcomes[Len(outcomes)] = "ok"

\* C18: a request that succeeds with k raw records returns k rows in the
\* order of the records, each with the record's timestamp (as a date and
\* time), open, high, low, close and volume; a record without vwap or
\* without transactions gives a row with that field None, and neither the
\* row nor the chunk is lost.
C18_RecordsMappedOneToOne ==
  ReturnedRecords =>
    \A aggs \in {ListAggs(provider, call.from_, call.to)} :
      /\ Len(chunk_df) = Len(aggs)
      /\ \A i \in 1..Len(aggs) :
           /\ chunk_df[i].timestamp[1] * MinutesPerDay + chunk_df[i].timestamp[2]
                = aggs[i].timestamp
           /\ chunk_df[i].timestamp[2] < MinutesPerDay
           /\ chunk_df[i].open = aggs[i].open
           /\ chunk_df[i].high = aggs[i].high
           /\ chunk_df[i].low = aggs[i].low
           /\ chunk_df[i].close = aggs[i].close
           /\ chunk_df[i].volume = aggs[i].volume
           /\ chunk_df[i].vwap
                = (IF "vwap" \in DOMAIN aggs[i] THEN aggs[i].vwap ELSE None)
           /\ chunk_df[i].transactions
                = (IF "transactions" \in DOMAIN aggs[i]
                     THEN aggs[i].transactions ELSE None)

C18_Witness ==
  /\ ReturnedRecords
  /\ provider.mode = "descending"
  /\ Len(chunk_df) >= 3
  /\ Len(chunk_df) = Len(ListAggs(provider, call.from_, call.to))
  /\ \E i \in 1..Len(chunk_df) :
       chunk_df[i].vwap = None /\ chunk_df[i].transactions = None
  /\ \E i \in 1..Len(chunk_df) :
       chunk_df[i].vwap # None /\ chunk_df[i].transactions # None

\* C19: for every pair of date strings validate_date accepts, zero-padded or
\* not, after main's swap step the start date is not after the end date as
\* calendar dates, so the range given to the paginated fetch has at least one
\* chunk.
C19_SwapOrdersCalendarDates ==
  /\ pc \in {"timespan", "fetch"} =>
       Strptime(start_date).ord <= Strptime(end_date).ord
  /\ InPaginatedFetch =>
       /\ start_dt <= end_dt
       /\ Plan(start_dt, end_dt, chunk_days) # <<>>

====
